---- MODULE Spec2Model ----
(***************************************************************************)
(* Model of src/src/quafel/pipelines/data_science/frameworks.py: the      *)
(* qubit-count extractor calculate_n_qubits_from_qasm and the eight       *)
(* execution adapters (test_fw, pennylane_fw, qiskit_fw, qrisp_fw,        *)
(* numpy_fw, cirq_fw, qibo_fw, qulacs_fw) with their lifecycle            *)
(* __init__ -> execute() -> get_result().                                 *)
(*                                                                         *)
(* A Python str (a QASM source, a bitstring key) is the sequence of its   *)
(* code points: "qreg" is <<113, 114, 101, 103>>, written                 *)
(* Str(<<"q", "r", "e", "g">>).  Map values are exact rationals           *)
(* <<num, den>> in lowest terms (Python ints and floats, compared by      *)
(* numerical value).  A Python exception is a record field err other      *)
(* than "none".                                                           *)
(***************************************************************************)
EXTENDS Integers, Sequences, FiniteSets, TLC

VARIABLES qasm, parsed, phase, fw, n_qubits, depth, n_shots, constant_sleep,
          load, init_err, result_state, result, exec_state, exec_calls,
          slept, gr_calls, ret, prev_ret, prev_returned

vars == <<qasm, parsed, phase, fw, n_qubits, depth, n_shots, constant_sleep,
          load, init_err, result_state, result, exec_state, exec_calls,
          slept, gr_calls, ret, prev_ret, prev_returned>>

----------------------------------------------------------------------------
(* Bounds of the model. *)

\* Largest register width of the circuits the adapters are run on.
MaxQubits == 2
\* Largest concrete shot count.
MaxShots == 2
\* Most get_result() calls after one execute().
MaxCalls == 2
\* Most execute() calls on one instance of a simulation adapter.
MaxExec == 1
\* Most execute() calls on one instance of test_fw.
MaxTestExec == 2
\* Exact probabilities of numpy_fw are multiples of 1/ProbDen.
ProbDen == 2
\* Most text fragments a parsed source is built from.
MaxFrags == 5

\* The unset shot count (Python None), kept apart from every integer count.
None == -1

----------------------------------------------------------------------------
(* Python values: str, int(), str.find, re.findall. *)

\* The ASCII characters U+0020 to U+005F in order.
AsciiUpper ==
    <<" ", "!", "\"", "#", "$", "%", "&", "'", "(", ")", "*", "+", ",", "-",
      ".", "/", "0", "1", "2", "3", "4", "5", "6", "7", "8", "9", ":", ";",
      "<", "=", ">", "?", "@", "A", "B", "C", "D", "E", "F", "G", "H", "I",
      "J", "K", "L", "M", "N", "O", "P", "Q", "R", "S", "T", "U", "V", "W",
      "X", "Y", "Z", "[", "\\", "]", "^", "_">>

\* The ASCII characters U+0061 to U+007E in order.
AsciiLower ==
    <<"a", "b", "c", "d", "e", "f", "g", "h", "i", "j", "k", "l", "m", "n",
      "o", "p", "q", "r", "s", "t", "u", "v", "w", "x", "y", "z", "{", "|",
      "}", "~">>

\* ord(c) of an ASCII character written as a one-character string.
Ord(c) ==
    CASE c = "\t" -> 9
      [] c = "\n" -> 10
      [] c = "\f" -> 12
      [] c = "\r" -> 13
      [] \E i \in 1..Len(AsciiUpper) : AsciiUpper[i] = c ->
            31 + CHOOSE i \in 1..Len(AsciiUpper) : AsciiUpper[i] = c
      [] OTHER -> 96 + CHOOSE i \in 1..Len(AsciiLower) : AsciiLower[i] = c

\* The str spelled by a tuple of ASCII characters.
Str(cs) == [k \in 1..Len(cs) |-> Ord(cs[k])]

Newline == Ord("\n")

Slash == Ord("/")

CloseBracket == Ord("]")

Underscore == Ord("_")

Plus == Ord("+")

Minus == Ord("-")

\* "0", the digit zero of ASCII.
Digit0 == Ord("0")

\* The code point of the digit zero of each of the 66 runs of ten Unicode
\* decimal digits (category Nd): 48 is "0", 1632 ARABIC-INDIC DIGIT ZERO,
\* 65296 FULLWIDTH DIGIT ZERO.  The digit of value v follows its zero at
\* distance v.
DigitZeros ==
    {48, 1632, 1776, 1984, 2406, 2534, 2662, 2790,
     2918, 3046, 3174, 3302, 3430, 3558, 3664, 3792,
     3872, 4160, 4240, 6112, 6160, 6470, 6608, 6784,
     6800, 6992, 7088, 7232, 7248, 42528, 43216, 43264,
     43472, 43504, 43600, 44016, 65296, 66720, 68912, 69734,
     69872, 69942, 70096, 70384, 70736, 70864, 71248, 71360,
     71472, 71904, 72016, 72784, 73040, 73120, 92768, 92864,
     93008, 120782, 120792, 120802, 120812, 120822, 123200, 123632,
     125264, 130032}

\* c matches \d of a str pattern: any Unicode decimal digit.
IsDigit(c) ==
    IF c < 128 THEN c \in Digit0..(Digit0 + 9)
    ELSE \E z \in DigitZeros : c \in z..(z + 9)

\* The value int() gives the digit c.
DigitVal(c) ==
    IF c < 128 THEN c - Digit0
    ELSE c - (CHOOSE z \in DigitZeros : c \in z..(z + 9))

\* The value of a sequence of decimal digits, most significant first.
RECURSIVE DecValue(_)
DecValue(ds) ==
    IF ds = <<>> THEN 0
    ELSE 10 * DecValue(SubSeq(ds, 1, Len(ds) - 1)) + DigitVal(ds[Len(ds)])

\* The code points int() strips from both ends of its argument.
IntSpace ==
    {9, 10, 11, 12, 13, 32, 133, 160, 5760, 8232, 8233, 8239, 8287, 12288}
        \cup 8192..8202

\* s without its leading and trailing whitespace.
Strip(s) ==
    LET keep == {k \in 1..Len(s) : s[k] \notin IntSpace}
    IN  IF keep = {} THEN <<>>
        ELSE SubSeq(s, CHOOSE k \in keep : \A j \in keep : k <= j,
                       CHOOSE k \in keep : \A j \in keep : k >= j)

\* b is a run of decimal digits in which single underscores may stand
\* between two digits.
IsIntBody(b) ==
    /\ b # <<>>
    /\ \A k \in 1..Len(b) :
          \/ IsDigit(b[k])
          \/ /\ b[k] = Underscore
             /\ 1 < k
             /\ k < Len(b)
             /\ IsDigit(b[k - 1])
             /\ IsDigit(b[k + 1])

\* sys.get_int_max_str_digits() as the interpreter starts with: the most
\* digits int() converts.
IntMaxStrDigits == 4300

\* int() of the stripped text t: an optional sign, then the digits, of
\* which there are no more than IntMaxStrDigits (leading zeros counted,
\* underscores not).
IntOfStripped(t) ==
    LET signed == t # <<>> /\ t[1] \in {Plus, Minus}
        b == IF signed THEN Tail(t) ELSE t
        ds == SelectSeq(b, IsDigit)
        v == DecValue(ds)
    IN  IF IsIntBody(b) /\ Len(ds) <= IntMaxStrDigits
        THEN [err |-> "none", val |-> IF signed /\ t[1] = Minus THEN 0 - v ELSE v]
        ELSE [err |-> "ValueError", val |-> 0]

\* A mutant of PyInt: int(x or 0), the empty string read as 0.
PyIntEmptyZero(s) ==
    IF Strip(s) = <<>> THEN [err |-> "none", val |-> 0]
    ELSE IntOfStripped(Strip(s))

\* int(s) for a str s in base 10: surrounding whitespace is dropped, a
\* sign may lead, the digits may be of any script; ValueError otherwise
\* (an empty text, a character that is no digit, too many digits).
PyInt(s) == IntOfStripped(Strip(s))

\* pat occurs in s at the 1-based position p.
OccursAt(s, pat, p) ==
    /\ p >= 1
    /\ p + Len(pat) - 1 <= Len(s)
    /\ \A k \in 1..Len(pat) : s[p + k - 1] = pat[k]

\* s.find(pat): the 0-based index of the first occurrence, -1 when none.
Find(s, pat) ==
    LET hits == {p \in 1..Len(s) : OccursAt(s, pat, p)}
    IN  IF hits = {} THEN -1
        ELSE (CHOOSE p \in hits : \A q \in hits : p <= q) - 1

QregOpen == Str(<<"q", "r", "e", "g", " ", "q", "[">>)

NlQregOpen == <<Newline>> \o QregOpen

\* The end (1-based, inclusive) of the longest run of digits starting at p;
\* p - 1 when s[p] is no digit.
RECURSIVE DigitRunEnd(_, _)
DigitRunEnd(s, p) ==
    IF p <= Len(s) /\ IsDigit(s[p]) THEN DigitRunEnd(s, p + 1) ELSE p - 1

\* The pattern qreg q\[(?P<n_qubits>\d*)\] matches s at position p: the
\* digits are taken greedily and "]" must follow them.
MatchesAt(s, p) ==
    /\ OccursAt(s, QregOpen, p)
    /\ LET e == DigitRunEnd(s, p + 7)
       IN  e + 1 <= Len(s) /\ s[e + 1] = CloseBracket

\* The group n_qubits of the match at p.
GroupAt(s, p) == SubSeq(s, p + 7, DigitRunEnd(s, p + 7))

\* re.findall from position p on: the groups of the non-overlapping
\* matches, left to right.
RECURSIVE FindAllFrom(_, _)
FindAllFrom(s, p) ==
    IF p > Len(s) THEN <<>>
    ELSE IF MatchesAt(s, p)
         THEN <<GroupAt(s, p)>> \o FindAllFrom(s, DigitRunEnd(s, p + 7) + 2)
         ELSE FindAllFrom(s, p + 1)

re_findall(s) == FindAllFrom(s, 1)

\* calculate_n_qubits_from_qasm: int() of the first match's group;
\* IndexError when nothing matches.
calculate_n_qubits_from_qasm(s) ==
    LET m == re_findall(s)
    IN  IF m = <<>> THEN [err |-> "IndexError", val |-> 0]
        ELSE PyInt(m[1])

\* A mutant of depth_index: the offset of the pattern's length less one.
depth_index_off_by_one(s) == Find(s, NlQregOpen) + 7

\* The 0-based index test_fw.__init__ reads the depth at.
depth_index(s) == Find(s, NlQregOpen) + 8

\* The depth test_fw.__init__ derives: int() of the one character at
\* depth_index; IndexError when the source ends before it.
test_fw_depth(s) ==
    LET i == depth_index(s)
    IN  IF i >= Len(s) THEN [err |-> "IndexError", val |-> 0]
        ELSE PyInt(<<s[i + 1]>>)

\* The re.sub of qibo_fw.__init__ from position p on: each "/" begins a
\* match of /\d*, on which qasm_conv takes float() of the digits
\* (ValueError when there are none) and divides 1 by it
\* (ZeroDivisionError when they are all zero).  The first match that
\* raises ends the call; the rewritten text goes to the backend only.
RECURSIVE qasm_conv_from(_, _)
qasm_conv_from(s, p) ==
    IF p > Len(s) THEN "none"
    ELSE IF s[p] # Slash THEN qasm_conv_from(s, p + 1)
    ELSE LET e == DigitRunEnd(s, p + 1)
         IN  IF e < p + 1 THEN "ValueError"
             ELSE IF DecValue(SubSeq(s, p + 1, e)) = 0 THEN "ZeroDivisionError"
             ELSE qasm_conv_from(s, e + 1)

qasm_conv(s) == qasm_conv_from(s, 1)

----------------------------------------------------------------------------
(* Numbers: exact rationals <<num, den>>, den >= 1, in lowest terms. *)

RECURSIVE Gcd(_, _)
Gcd(a, b) == IF b = 0 THEN a ELSE Gcd(b, a % b)

Rat(a, b) == LET g == Gcd(a, b) IN IF g = 0 THEN <<0, 1>> ELSE <<a \div g, b \div g>>

IntRat(k) == <<k, 1>>

Zero == IntRat(0)

\* x / k for a concrete integer k >= 1 (Python true division).
RatDivInt(x, k) == Rat(x[1], x[2] * k)

RatAdd(x, y) == Rat(x[1] * y[2] + y[1] * x[2], x[2] * y[2])

\* The sum of the values of a map.
RECURSIVE SumOver(_, _)
SumOver(f, keys) ==
    IF keys = {} THEN Zero
    ELSE LET k == CHOOSE x \in keys : TRUE
         IN  RatAdd(f[k], SumOver(f, keys \ {k}))

MapSum(f) == SumOver(f, DOMAIN f)

Pow2(n) == 2 ^ n

----------------------------------------------------------------------------
(* Bitstrings: format(i, f"0{n}b"). *)

\* bin(i) without the prefix: at least one digit.
RECURSIVE Bin(_)
Bin(i) == IF i < 2 THEN <<Digit0 + i>>
          ELSE Bin(i \div 2) \o <<Digit0 + (i % 2)>>

\* format(i, "0{w}b"): the binary digits, zero-padded on the left to at
\* least w characters.
Format(i, w) ==
    LET b == Bin(i)
    IN  IF Len(b) >= w THEN b ELSE [k \in 1..(w - Len(b)) |-> Digit0] \o b

\* The keys the loops of get_result visit.
Keys(n) == {Format(i, n) : i \in 0..(Pow2(n) - 1)}

EmptyMap == <<>>

NoRet == [kind |-> "none", err |-> "none", map |-> EmptyMap, shared |-> FALSE]

\* return counts, counts a dict built by the call.
Returned(m) == [kind |-> "map", err |-> "none", map |-> m, shared |-> FALSE]

\* return counts, counts the dict self.result itself: the caller and the
\* adapter hold one object.
ReturnedSelf(m) == [kind |-> "map", err |-> "none", map |-> m, shared |-> TRUE]

Raised(e) == [kind |-> "error", err |-> e, map |-> EmptyMap, shared |-> FALSE]

\* What a get_result() call leaves: what it returned or raised, and the
\* adapter's self.result after it.
Outcome(r, res) == [ret |-> r, result |-> res]

\* A mutant of PadZeros: the counts as the backend gave them.
NoPadZeros(counts, n) == counts

\* Insert zero for the keys missing from counts.
PadZeros(counts, n) ==
    [b \in Keys(n) \cup DOMAIN counts |->
        IF b \in DOMAIN counts THEN counts[b] ELSE Zero]

----------------------------------------------------------------------------
(* get_result() of each adapter. *)

\* A mutant of test_fw_get_result: the shot count reported for outcome 0.
test_fw_get_result_shots(n, shots) ==
    [b \in Keys(n) |-> IF b = Format(0, n) /\ shots # None
                        THEN IntRat(shots) ELSE Zero]

\* test_fw.get_result: zero for each of the 2^n keys.
test_fw_get_result(n, shots) == [b \in Keys(n) |-> Zero]

\* The loop of pennylane_fw.get_result from i on, run on the dict counts
\* itself: a missing key is set to 0, a present one is divided by n_shots
\* (TypeError when n_shots is None; the keys set so far stay set).
RECURSIVE pennylane_loop(_, _, _, _)
pennylane_loop(counts, i, n, shots) ==
    IF i >= Pow2(n) THEN [err |-> "none", counts |-> counts]
    ELSE LET b == Format(i, n)
         IN  IF b \notin DOMAIN counts
             THEN pennylane_loop(counts @@ (b :> Zero), i + 1, n, shots)
             ELSE IF shots = None
                  THEN [err |-> "TypeError", counts |-> counts]
                  ELSE pennylane_loop([counts EXCEPT ![b] = RatDivInt(@, shots)],
                                      i + 1, n, shots)

\* A mutant of pennylane_fw_get_result: division by (n_shots or 1).
pennylane_fw_get_result_none_as_one(n, shots, rstate, res) ==
    IF rstate = "unset" THEN Outcome(Raised("AttributeError"), res)
    ELSE LET l == pennylane_loop(res, 0, n, IF shots = None THEN 1 ELSE shots)
         IN  Outcome(ReturnedSelf(l.counts), l.counts)

\* pennylane_fw.get_result: counts is self.result, not a copy, so the loop
\* writes into self.result, and the dict returned is self.result.
pennylane_fw_get_result(n, shots, rstate, res) ==
    IF rstate = "unset" THEN Outcome(Raised("AttributeError"), res)
    ELSE LET l == pennylane_loop(res, 0, n, shots)
         IN  IF l.err = "none" THEN Outcome(ReturnedSelf(l.counts), l.counts)
             ELSE Outcome(Raised(l.err), l.counts)

\* qiskit_fw.get_result: None.result() before execute(); after it,
\* get_counts() builds a new dict on each call, which is padded.
qiskit_fw_get_result(n, shots, rstate, res) ==
    IF rstate = "None" THEN Outcome(Raised("AttributeError"), res)
    ELSE Outcome(Returned(PadZeros(res, n)), res)

\* A mutant of qrisp_fw_get_result: no check of the first key on None.
qrisp_fw_get_result_none_ok(n, shots, rstate, res) ==
    IF rstate = "None" THEN Outcome(Returned(PadZeros(EmptyMap, n)), res)
    ELSE LET c == PadZeros(res, n) IN Outcome(ReturnedSelf(c), c)

\* qrisp_fw.get_result: None.keys() before execute(); after it the
\* padding is written into self.result itself, which is returned.
qrisp_fw_get_result(n, shots, rstate, res) ==
    IF rstate = "None" THEN Outcome(Raised("AttributeError"), res)
    ELSE LET c == PadZeros(res, n) IN Outcome(ReturnedSelf(c), c)

\* np.count_nonzero(self.result == i).
CountEqual(arr, x) == Cardinality({k \in 1..Len(arr) : arr[k] = x})

\* numpy_fw.get_result: for each i the number of entries of self.result
\* equal to i, whether self.result holds samples or probabilities.
numpy_fw_get_result(n, shots, rstate, res) ==
    IF rstate = "unset" THEN Outcome(Raised("AttributeError"), res)
    ELSE Outcome(Returned([b \in Keys(n) |->
             LET i == CHOOSE j \in 0..(Pow2(n) - 1) : Format(j, n) = b
             IN  IntRat(CountEqual(res, IntRat(i)))]), res)

\* The rows of self.result.data whose column c_j equals int(bitstring[j])
\* for every j.
CirqMatching(rows, b, n) ==
    {k \in 1..Len(rows) : \A j \in 1..n : rows[k][j] = PyInt(<<b[j]>>).val}

\* cirq_fw.get_result: a simulate() result (n_shots None) has no data;
\* with no qubit the mask stays None; else len(rows) / n_shots.
cirq_fw_get_result(n, shots, rstate, res) ==
    IF rstate = "unset" \/ shots = None
    THEN Outcome(Raised("AttributeError"), res)
    ELSE IF n = 0 THEN Outcome(Raised("KeyError"), res)
    ELSE Outcome(Returned([b \in Keys(n) |->
             RatDivInt(IntRat(Cardinality(CirqMatching(res, b, n))), shots)]),
             res)

\* qibo_fw.get_result: dict(frequencies) is a copy, which is padded.
qibo_fw_get_result(n, shots, rstate, res) ==
    IF rstate = "unset" THEN Outcome(Raised("AttributeError"), res)
    ELSE Outcome(Returned(PadZeros(res, n)), res)

\* qulacs_fw.get_result: "i not in None" before execute(); after it the
\* number of samples equal to i.
qulacs_fw_get_result(n, shots, rstate, res) ==
    IF rstate = "None" THEN Outcome(Raised("TypeError"), res)
    ELSE Outcome(Returned([b \in Keys(n) |->
             LET i == CHOOSE j \in 0..(Pow2(n) - 1) : Format(j, n) = b
             IN  IntRat(Cardinality({k \in 1..Len(res) : res[k] = i}))]), res)

\* get_result() of the adapter of the given class.
get_result(kind, n, shots, rstate, res) ==
    CASE kind = "test_fw" -> Outcome(Returned(test_fw_get_result(n, shots)), res)
      [] kind = "pennylane_fw" -> pennylane_fw_get_result(n, shots, rstate, res)
      [] kind = "qiskit_fw" -> qiskit_fw_get_result(n, shots, rstate, res)
      [] kind = "qrisp_fw" -> qrisp_fw_get_result(n, shots, rstate, res)
      [] kind = "numpy_fw" -> numpy_fw_get_result(n, shots, rstate, res)
      [] kind = "cirq_fw" -> cirq_fw_get_result(n, shots, rstate, res)
      [] kind = "qibo_fw" -> qibo_fw_get_result(n, shots, rstate, res)
      [] kind = "qulacs_fw" -> qulacs_fw_get_result(n, shots, rstate, res)

----------------------------------------------------------------------------
(* execute() of each adapter.  The simulation backends are outside the   *)
(* repository: what a backend stores is any raw result of its kind over  *)
(* the outcome space, or it raises.                                      *)

NoSleep == [mode |-> "none", units |-> 0]

\* time.sleep(0.01) in units of time_const = 1e-9 s.
ConstantSleepUnits == 10000000

ExecOk(rstate, res, sl) == [err |-> "none", rstate |-> rstate, result |-> res, slept |-> sl]

ExecRaised(e) == [err |-> e, rstate |-> "unset", result |-> EmptyMap, slept |-> NoSleep]

\* The outcomes of t shots, in the order drawn.
ShotSeqs(n, t) == [1..t -> 0..(Pow2(n) - 1)]

\* The counts of a run: the outcomes that occurred, each with how often.
Tally(seq, n) ==
    [b \in {Format(seq[k], n) : k \in 1..Len(seq)} |->
        IntRat(Cardinality({k \in 1..Len(seq) : Format(seq[k], n) = b}))]

\* The raw counts a backend run with the given shots can store: those of
\* exactly that many shots, of any number when the count is unset.
RawCounts(n, shots) ==
    IF shots = None
    THEN UNION {{Tally(q, n) : q \in ShotSeqs(n, t)} : t \in 0..MaxShots}
    ELSE {Tally(q, n) : q \in ShotSeqs(n, shots)}

\* The probability vectors |amplitude|^2 with entries k/ProbDen, sum 1.
Probabilities(n) ==
    {[i \in 1..Pow2(n) |->
        Rat(Cardinality({k \in 1..ProbDen : q[k] = i - 1}), ProbDen)] :
     q \in ShotSeqs(n, ProbDen)}

\* test_fw.execute: the synthetic load or a sleep; no field is written.
test_fw_execute(n, shots, d, cs, ld) ==
    IF cs
    THEN IF ld THEN {ExecOk("unset", EmptyMap, [mode |-> "load", units |-> 0])}
         ELSE {ExecOk("unset", EmptyMap, [mode |-> "sleep", units |-> ConstantSleepUnits])}
    ELSE IF shots = None THEN {ExecRaised("TypeError")}
         ELSE {ExecOk("unset", EmptyMap,
                      [mode |-> "sleep", units |-> shots * d ^ 2 * n ^ 3])}

\* execute() of the adapters that store a dict of counts (pennylane_fw,
\* qrisp_fw) or an object the counts are read from (qiskit_fw, qibo_fw).
counts_execute(n, shots) ==
    {ExecOk("set", c, NoSleep) : c \in RawCounts(n, shots)}
        \cup {ExecRaised("BackendExecutionError")}

\* numpy_fw.execute: n_shots samples of np.random.choice, or the
\* probabilities themselves when n_shots is None.
numpy_fw_execute(n, shots) ==
    IF shots # None
    THEN {ExecOk("set", [k \in 1..shots |-> IntRat(q[k])], NoSleep) :
             q \in ShotSeqs(n, shots)}
    ELSE {ExecOk("set", p, NoSleep) : p \in Probabilities(n)}

\* cirq_fw.execute: simulate() when n_shots is None (a result without
\* data), else run(): one row of measured bits per repetition.
cirq_fw_execute(n, shots) ==
    (IF shots = None THEN {ExecOk("set", <<>>, NoSleep)}
     ELSE {ExecOk("set", rows, NoSleep) : rows \in [1..shots -> [1..n -> {0, 1}]]})
        \cup {ExecRaised("BackendExecutionError")}

\* qulacs_fw.execute: state.sampling(n_shots), a list of sampled integers.
qulacs_fw_execute(n, shots) ==
    IF shots = None THEN {ExecRaised("TypeError")}
    ELSE {ExecOk("set", q, NoSleep) : q \in ShotSeqs(n, shots)}

\* execute() of the adapter of the given class: what it can store or raise.
execute(kind, n, shots, d, cs, ld) ==
    CASE kind = "test_fw" -> test_fw_execute(n, shots, d, cs, ld)
      [] kind \in {"pennylane_fw", "qiskit_fw", "qrisp_fw", "qibo_fw"} ->
            counts_execute(n, shots)
      [] kind = "numpy_fw" -> numpy_fw_execute(n, shots)
      [] kind = "cirq_fw" -> cirq_fw_execute(n, shots)
      [] kind = "qulacs_fw" -> qulacs_fw_execute(n, shots)

----------------------------------------------------------------------------
(* __init__ of each adapter. *)

Adapters == {"test_fw", "pennylane_fw", "qiskit_fw", "qrisp_fw", "numpy_fw",
             "cirq_fw", "qibo_fw", "qulacs_fw"}

InitOk(n, d, rstate) == [err |-> "none", n_qubits |-> n, depth |-> d, rstate |-> rstate]

InitRaised(e) == [err |-> e, n_qubits |-> 0, depth |-> 0, rstate |-> "unset"]

\* test_fw.__init__: the qubit count, then the depth character.
test_fw_init(s) ==
    LET n == calculate_n_qubits_from_qasm(s)
        d == test_fw_depth(s)
    IN  IF n.err # "none" THEN InitRaised(n.err)
        ELSE IF d.err # "none" THEN InitRaised(d.err)
        ELSE InitOk(n.val, d.val, "unset")

\* __init__ of a simulation adapter: what it can leave.  The backend's
\* import of the source is outside the repository: it returns or raises.
\* numpy_fw imports before it takes the qubit count, the others after.
\* qibo_fw rewrites the divisions of the source in between.  qiskit_fw and
\* qrisp_fw set self.result = None, the others leave it unset.  qulacs_fw
\* calls self.convert_QASM_to_qulacs_circuit, which no class defines.
simulation_init(kind, s) ==
    LET n == calculate_n_qubits_from_qasm(s)
        counted == IF n.err # "none" THEN InitRaised(n.err)
                   ELSE InitOk(n.val, 0,
                               IF kind \in {"qiskit_fw", "qrisp_fw"}
                               THEN "None" ELSE "unset")
        imported == {counted, InitRaised("BackendCompileError")}
    IN  CASE kind = "numpy_fw" -> imported
          [] n.err # "none" -> {counted}
          [] kind = "qulacs_fw" -> {InitRaised("AttributeError")}
          [] kind = "qibo_fw" /\ qasm_conv(s) # "none" -> {InitRaised(qasm_conv(s))}
          [] OTHER -> imported

\* kind(s, n_shots): the instances and exceptions the constructor can end in.
adapter_init(kind, s) ==
    IF kind = "test_fw" THEN {test_fw_init(s)} ELSE simulation_init(kind, s)

----------------------------------------------------------------------------
(* The sources. *)

Pad == Str(<<"/", "/", "d", "e", "p", "t", "h">>)

RECURSIVE Concat(_)
Concat(fs) == IF fs = <<>> THEN <<>> ELSE Head(fs) \o Concat(Tail(fs))

\* ARABIC-INDIC DIGIT THREE (U+0663), a decimal digit outside ASCII.
ArabicIndicThree == 1632 + 3

Fragments ==
    {QregOpen, NlQregOpen, Pad, <<CloseBracket>>, Str(<<"1">>), Str(<<"2">>),
     <<ArabicIndicThree>>}

\* The sources the parsing is applied to: every text of at most MaxFrags
\* fragments, well-formed or not.
ParseSources == {Concat(fs) : fs \in UNION {[1..k -> Fragments] : k \in 0..MaxFrags}}

\* "qreg q[n];"
Declaration(n) == QregOpen \o <<Digit0 + n, CloseBracket, Ord(";")>>

\* A rotation by pi over d.
Rotation(d) == Str(<<"r", "x", "(", "p", "i", "/", d, ")", " ", "q", "[", "0", "]", ";">>)

\* The circuits the adapters are run on: a declaration of each width that
\* begins the source, declarations that follow a newline or other text,
\* declarations followed by a gate with a division, and one source
\* without a declaration.
SpecSources ==
    {Declaration(n) : n \in 0..MaxQubits}
        \cup {Pad \o <<Newline>> \o Declaration(1),
              Pad \o Str(<<"3", " ">>) \o Declaration(2),
              Declaration(1) \o Rotation("2"),
              Declaration(1) \o Rotation("0"),
              Pad}

ShotCounts == {None} \cup 1..MaxShots

----------------------------------------------------------------------------
(* The state machine. *)

NotCalled == [err |-> "not called", val |-> 0]

Blank ==
    /\ parsed = NotCalled
    /\ phase = "new"
    /\ fw = "none"
    /\ n_qubits = 0
    /\ depth = 0
    /\ n_shots = None
    /\ constant_sleep = TRUE
    /\ load = TRUE
    /\ init_err = "none"
    /\ result_state = "unset"
    /\ result = EmptyMap
    /\ exec_state = "never"
    /\ exec_calls = 0
    /\ slept = NoSleep
    /\ gr_calls = 0
    /\ ret = NoRet
    /\ prev_ret = NoRet
    /\ prev_returned = NoRet

Init == qasm \in SpecSources /\ Blank

InitParse == qasm \in ParseSources /\ Blank

\* kind(qasm, shots), with the class attributes constant_sleep and load of
\* test_fw as configured.
ConstructAs(kind, shots, cs, ld) ==
    /\ phase = "new"
    /\ \E r \in adapter_init(kind, qasm) :
           /\ phase' = IF r.err = "none" THEN "ready" ELSE "failed"
           /\ init_err' = r.err
           /\ n_qubits' = r.n_qubits
           /\ depth' = r.depth
           /\ result_state' = r.rstate
    /\ fw' = kind
    /\ n_shots' = shots
    /\ constant_sleep' = cs
    /\ load' = ld
    /\ UNCHANGED <<qasm, parsed, result, exec_state, exec_calls, slept,
                   gr_calls, ret, prev_ret, prev_returned>>

Construct ==
    \E kind \in Adapters, shots \in ShotCounts, cs \in BOOLEAN, ld \in BOOLEAN :
        /\ kind # "test_fw" => cs /\ ld
        /\ ConstructAs(kind, shots, cs, ld)

\* execute(): the backend's raw result is stored, or the call raises and
\* leaves the fields as they were.  The caller lets go of the maps it got
\* from get_result() before.
Execute ==
    /\ phase = "ready"
    /\ exec_calls < (IF fw = "test_fw" THEN MaxTestExec ELSE MaxExec)
    /\ \E o \in execute(fw, n_qubits, n_shots, depth, constant_sleep, load) :
          IF o.err = "none"
          THEN /\ exec_state' = "returned"
               /\ slept' = o.slept
               /\ IF fw = "test_fw" THEN UNCHANGED <<result_state, result>>
                  ELSE result_state' = o.rstate /\ result' = o.result
          ELSE /\ exec_state' = "raised"
               /\ UNCHANGED <<slept, result_state, result>>
    /\ exec_calls' = exec_calls + 1
    /\ gr_calls' = 0
    /\ ret' = NoRet
    /\ prev_ret' = NoRet
    /\ prev_returned' = NoRet
    /\ UNCHANGED <<qasm, parsed, phase, fw, n_qubits, depth, n_shots,
                   constant_sleep, load, init_err>>

\* get_result().  ret is what the caller holds from this call (the map
\* returned or the error raised) and prev_ret what it holds from the call
\* before, as it reads now: a map that is self.result itself reads as
\* self.result does after this call.  prev_returned is the call before as
\* it read when it returned.
GetResult ==
    /\ phase = "ready"
    /\ gr_calls < MaxCalls
    /\ LET o == get_result(fw, n_qubits, n_shots, result_state, result)
       IN  /\ ret' = o.ret
           /\ result' = o.result
           /\ prev_ret' = IF ret.shared THEN [ret EXCEPT !.map = o.result] ELSE ret
    /\ prev_returned' = ret
    /\ gr_calls' = gr_calls + 1
    /\ UNCHANGED <<qasm, parsed, phase, fw, n_qubits, depth, n_shots,
                   constant_sleep, load, init_err, result_state, exec_state,
                   exec_calls, slept>>

Next == Construct \/ Execute \/ GetResult

Spec == Init /\ [][Next]_vars

\* calculate_n_qubits_from_qasm(qasm), called on its own.
Calculate ==
    /\ parsed = NotCalled
    /\ parsed' = calculate_n_qubits_from_qasm(qasm)
    /\ UNCHANGED <<qasm, phase, fw, n_qubits, depth, n_shots, constant_sleep,
                   load, init_err, result_state, result, exec_state,
                   exec_calls, slept, gr_calls, ret, prev_ret, prev_returned>>

\* test_fw(qasm, 1).
ConstructTestFw == ConstructAs("test_fw", 1, TRUE, TRUE)

NextParse == Calculate \/ ConstructTestFw

SpecParse == InitParse /\ [][NextParse]_vars

----------------------------------------------------------------------------
(* The claims. *)

\* All strings of n characters over "0" and "1".
Bitstrings(n) == [1..n -> {Digit0, Digit0 + 1}]

\* Some execute() has been called and the last one returned.
Executed == phase = "ready" /\ exec_state = "returned"

\* C1 as stated: after execute() has returned, the key set of the map that
\* get_result() returns is exactly the set of all bitstrings of length
\* n_qubits, for every adapter and every register width.
C1_KeysAreAllBitstringsOfWidthN ==
    (Executed /\ ret.kind = "map") => DOMAIN ret.map = Bitstrings(n_qubits)

\* C1 amended: the key set is the 2^n strings format(i, "0{n}b"): all
\* bitstrings of length n when n >= 1, and the one key "0", of length 1,
\* when n = 0.
C1_KeysAreAllBitstringsOrZero ==
    (Executed /\ ret.kind = "map") =>
        DOMAIN ret.map = IF n_qubits = 0 THEN {<<Digit0>>} ELSE Bitstrings(n_qubits)

\* C1, a case of it: a count-style adapter has returned a map on a raw result that held one
\* outcome of the four.
C1_Witness ==
    /\ Executed
    /\ fw = "qiskit_fw"
    /\ n_qubits = 2
    /\ Cardinality(DOMAIN result) = 1
    /\ ret.kind = "map"

\* C2: two consecutive get_result() calls after one execute() return
\* identical maps: the map the second call returns has the keys and the
\* values that the map of the first call had when it was returned.
C2_ConsecutiveCallsAgree ==
    (Executed /\ prev_returned.kind = "map" /\ ret.kind = "map") =>
        ret.map = prev_returned.map

\* C3 as stated: get_result() on an instance on which execute() was never
\* invoked raises, for every adapter.
C3_BeforeExecuteRaises ==
    (phase = "ready" /\ exec_calls = 0 /\ ret.kind # "none") => ret.kind = "error"

\* C3 amended: before any execute(), get_result() of every simulation
\* adapter raises, and get_result() of test_fw returns the all-zero map.
C3_BeforeExecuteRaisesUnlessTestFw ==
    (phase = "ready" /\ exec_calls = 0 /\ ret.kind # "none") =>
        IF fw = "test_fw"
        THEN ret.kind = "map" /\ \A b \in DOMAIN ret.map : ret.map[b] = Zero
        ELSE ret.kind = "error"

\* C3, a case of it: get_result() has raised on a fresh qrisp_fw, whose result is None.
C3_Witness ==
    /\ phase = "ready"
    /\ exec_calls = 0
    /\ fw = "qrisp_fw"
    /\ result_state = "None"
    /\ ret.kind = "error"

\* C4: with a concrete shot count S, all S shots recorded by the backend,
\* the values of the returned map sum to S for numpy_fw and qulacs_fw and
\* to 1 for pennylane_fw and cirq_fw.
C4_ValuesSumToShotsOrOne ==
    (Executed /\ n_shots # None /\ ret.kind = "map") =>
        /\ fw \in {"numpy_fw", "qulacs_fw"} => MapSum(ret.map) = IntRat(n_shots)
        /\ fw \in {"pennylane_fw", "cirq_fw"} => MapSum(ret.map) = IntRat(1)

\* C5: a get_result() call leaves self.result and every other field as
\* they were.
C5_GetResultWritesNoField ==
    [][GetResult =>
        /\ result' = result
        /\ result_state' = result_state
        /\ <<n_qubits, n_shots, depth>>' = <<n_qubits, n_shots, depth>>]_vars

\* C6: numpy_fw.get_result() maps bitstring i to the probability that
\* execute() computed for i when n_shots is None, and to the number of
\* drawn samples equal to i when n_shots is an integer.
C6_NumpyReportsProbabilitiesOrCounts ==
    (Executed /\ fw = "numpy_fw" /\ ret.kind = "map") =>
        \A i \in 0..(Pow2(n_qubits) - 1) :
            /\ Format(i, n_qubits) \in DOMAIN ret.map
            /\ ret.map[Format(i, n_qubits)] =
                 IF n_shots = None THEN result[i + 1]
                 ELSE IntRat(Cardinality({k \in 1..Len(result) : result[k] = IntRat(i)}))

\* The call C7 is about: get_result() of a probability-style adapter with
\* the shot count unset, after execute() stored a result.
C7_Call ==
    /\ fw \in {"pennylane_fw", "cirq_fw"}
    /\ n_shots = None
    /\ exec_state = "returned"
    /\ GetResult

\* C7 as stated: that call raises, whatever the stored result.
C7_UnsetShotsAlwaysRaises == [][C7_Call => ret'.kind = "error"]_vars

\* C7 amended: that call raises for cirq_fw always, and for pennylane_fw
\* exactly when self.result holds a key of the outcome space; when it
\* holds none, pennylane_fw returns the all-zero map.
C7_UnsetShotsRaisesUnlessNoOutcome ==
    [][C7_Call =>
        IF fw = "pennylane_fw" /\ DOMAIN result \cap Keys(n_qubits) = {}
        THEN /\ ret'.kind = "map"
             /\ DOMAIN ret'.map = Keys(n_qubits)
             /\ \A b \in DOMAIN ret'.map : ret'.map[b] = Zero
        ELSE ret'.kind = "error"]_vars

\* C7, a case of it: pennylane_fw with the shot count unset has raised TypeError on a
\* stored result that holds an outcome.
C7_Witness ==
    /\ Executed
    /\ fw = "pennylane_fw"
    /\ n_shots = None
    /\ gr_calls = 1
    /\ ret.kind = "error"
    /\ ret.err = "TypeError"

\* The positions of the texts "qreg q[" ... "]" in s.
BracketedAt(s) ==
    {p \in 1..Len(s) :
        OccursAt(s, QregOpen, p) /\ \E e \in (p + 7)..Len(s) : s[e] = CloseBracket}

\* What stands between the brackets of the text at p.
Bracketed(s, p) ==
    LET e == CHOOSE x \in (p + 7)..Len(s) :
                 s[x] = CloseBracket /\ \A y \in (p + 7)..(x - 1) : s[y] # CloseBracket
    IN  SubSeq(s, p + 7, e - 1)

IsIntLiteral(w) == w # <<>> /\ \A k \in 1..Len(w) : IsDigit(w[k])

\* C8: on a source with one declaration qreg q[W], W an integer literal,
\* calculate_n_qubits_from_qasm returns W (12 for "qreg q[12]"); on a
\* source with no declaration, or with one whose W is no integer literal,
\* it raises.  An integer literal is a non-empty run of decimal digits, of
\* whatever script: a width of ARABIC-INDIC DIGIT THREE is returned as 3.
C8_ReturnsWidthOrRaises ==
    parsed # NotCalled =>
        LET at == BracketedAt(qasm)
        IN  /\ at = {} => parsed.err # "none"
            /\ \A p \in at :
                  at = {p} =>
                     IF IsIntLiteral(Bracketed(qasm, p))
                     THEN parsed = [err |-> "none", val |-> DecValue(Bracketed(qasm, p))]
                     ELSE parsed.err # "none"
            /\ qasm = QregOpen \o Str(<<"1", "2", "]">>) => parsed = [err |-> "none", val |-> 12]
            /\ qasm = QregOpen \o <<ArabicIndicThree, CloseBracket>> =>
                  parsed = [err |-> "none", val |-> 3]

\* C8, a case of it: the width 21 has been returned for a declaration that follows other
\* text.
C8_Witness ==
    /\ parsed = [err |-> "none", val |-> 21]
    /\ BracketedAt(qasm) = {8}

\* C9: test_fw.get_result() returns a map with each of the 2^n outcomes
\* at 0, whatever the circuit, the shots, the cost-model flags and the
\* number of execute() calls.
C9_TestFwAllZero ==
    (fw = "test_fw" /\ ret.kind # "none") =>
        /\ ret.kind = "map"
        /\ Cardinality(DOMAIN ret.map) = Pow2(n_qubits)
        /\ \A b \in DOMAIN ret.map : ret.map[b] = Zero

\* C9, a case of it: test_fw in analytic mode has returned its map after two execute()
\* calls on a two-qubit circuit.
C9_Witness ==
    /\ fw = "test_fw"
    /\ ~constant_sleep
    /\ n_qubits = 2
    /\ exec_calls = 2
    /\ exec_state = "returned"
    /\ ret.kind = "map"

\* The positions at which the declaration pattern matches s.
DeclarationsAt(s) == {p \in 1..Len(s) : MatchesAt(s, p)}

\* C10 for the one declaration at p, as far as it speaks of the depth
\* derived: the first digit of W when the declaration begins the source
\* or follows a newline; the character at index 7 is read otherwise.
C10_Stated(p) ==
    IF p = 1 \/ qasm[p - 1] = Newline
    THEN phase = "ready" => depth = DigitVal(GroupAt(qasm, p)[1])
    ELSE depth_index(qasm) = 7

\* C10 as stated: on a source with exactly one declaration qreg q[W],
\* the depth test_fw.__init__ derives is the first digit of W when the
\* declaration begins the source or follows a newline, and the character
\* read is the one at index 7 otherwise.
C10_DepthIsFirstDigitOfWidth ==
    (fw = "test_fw" /\ phase # "new") =>
        \A p \in DeclarationsAt(qasm) :
            (DeclarationsAt(qasm) = {p} /\ GroupAt(qasm, p) # <<>>) => C10_Stated(p)

\* C10 for the one declaration at p, in full: the constructor returns
\* with the first digit of W as depth and W as qubit count; otherwise the
\* depth is int() of the character at index 7, and the constructor
\* raises when that is no digit.
C10_DepthOf(p) ==
    LET w == GroupAt(qasm, p)
    IN  IF p = 1 \/ qasm[p - 1] = Newline
        THEN /\ phase = "ready"
             /\ depth = DigitVal(w[1])
             /\ n_qubits = DecValue(w)
        ELSE /\ depth_index(qasm) = 7
             /\ IF IsDigit(qasm[8])
                THEN phase = "ready" /\ depth = DigitVal(qasm[8])
                ELSE phase = "failed"

\* C10 amended: the same, on a source in which the text "qreg q[" occurs
\* only as the start of that declaration.
C10_DepthIsFirstDigitOfOnlyQreg ==
    (fw = "test_fw" /\ phase # "new") =>
        \A p \in DeclarationsAt(qasm) :
            (/\ DeclarationsAt(qasm) = {p}
             /\ GroupAt(qasm, p) # <<>>
             /\ {q \in 1..Len(qasm) : OccursAt(qasm, QregOpen, q)} = {p})
                => C10_DepthOf(p)

\* C10, a case of it: the depth 1 has been derived from "qreg q[12]" after a newline.
C10_Witness ==
    /\ fw = "test_fw"
    /\ phase = "ready"
    /\ qasm = NlQregOpen \o Str(<<"1", "2", "]">>)
    /\ depth = 1
    /\ n_qubits = 12

====
